---- MODULE Spec2Model ----
(***************************************************************************)
(* Transport chain, ownership-aware transport list and chain operations of *)
(* components/tcp_transport (PHASE 1 additions).                           *)
(*                                                                         *)
(* A transport handle is a node number; NULL is the absent handle.  Every  *)
(* public function is one action; the recursive chain walkers are          *)
(* RECURSIVE operators that return the callback/free events they perform   *)
(* and the esp_err_t they return.                                          *)
(*                                                                         *)
(* The resource table of a layer (transport_resource_t resources[]) is the *)
(* sequences hasInit, initialized and target; the tracker's init and       *)
(* cleanup walk it, and the connect, close and destroy callbacks of the    *)
(* WebSocket layer and of the example layer call them.                     *)
(***************************************************************************)
EXTENDS Integers, Sequences, FiniteSets, TLC

\* ------------------------------------------------------------------ bounds
MaxNodes == 3

\* slots of a resource table used directly
MaxSlots == 4
\* allocations that may be lost before the calls that lose one more are cut off
MaxLost == 2
\* connect-then-close cycles counted
MaxCycles == 2

\* --------------------------------------------------------------- constants
NULL == 0
ESP_TRANSPORT_OWNERSHIP_NONE == 0
ESP_TRANSPORT_OWNERSHIP_SHARED == 1
ESP_TRANSPORT_OWNERSHIP_EXCLUSIVE == 2

\* esp_err_t codes (an esp_err_t is an int; the values are those of esp_err.h)
ESP_OK == 0
ESP_FAIL == -1
ESP_ERR_NO_MEM == 257
ESP_ERR_INVALID_ARG == 258

Nodes == 1..MaxNodes
Handles == Nodes \cup {NULL}
Ownerships == {ESP_TRANSPORT_OWNERSHIP_NONE, ESP_TRANSPORT_OWNERSHIP_SHARED,
               ESP_TRANSPORT_OWNERSHIP_EXCLUSIVE}
\* esp_err_t values a callback (destroy, or the op given to chain_execute) returns
CallbackErrs == {ESP_OK, ESP_FAIL, ESP_ERR_NO_MEM}
\* int values a layer's _close returns (trans_func)
CloseRets == {0, -1, -2}
\* scheme labels; NoScheme is the NULL char pointer
Schemes == {"ws", "_tcp"}
NoScheme == "(null)"

VARIABLES
    parent,     \* parent[t]: t->parent, set by the layer constructor
    funcs,      \* funcs[t]: esp_transport_set_func installed _close/_destroy
    ownership,  \* ownership[t]: t->ownership
    scheme,     \* scheme[t]: t->scheme
    list,       \* the STAILQ of the transport list, head first
    listAlive,  \* the list's own storage has not been freed
    freeCount,  \* freeCount[t]: how many times free(t) ran on node t
    destroyCount, \* destroyCount[t]: how many times t->_destroy(t) ran
    added,      \* history: the nodes added since the last clean, in the order of the calls
    call,       \* the public call that just returned (NoCall once the caller took
                \* its result): arguments, callback results, events, result
    kind,       \* the layer whose context holds the resource table: "ws"
                \* (transport_ws_after_t), "my_transport" (my_transport_after_t),
                \* "tracker" (a table used directly), "none" (no table)
    hasInit,    \* hasInit[i]: resources[i].init # NULL (fixed by TRANSPORT_RESOURCE)
    initialized, \* initialized[i]: resources[i].initialized
    target,     \* target[i]: *resources[i].handle_ptr, NULL or an allocation
    lost,       \* allocations no pointer refers to any more (never freed)
    ctxAlive,   \* the layer's context (and its table) has not been freed
    cycles,     \* history: the connect-then-close cycles completed so far
    phase       \* history: "closed" (only whole cycles so far), "connected" (whole
                \* cycles, then one connect), "broken" (the calls did not alternate)

\* the resource table and its history
resVars == <<kind, hasInit, initialized, target, lost, ctxAlive, cycles, phase>>

vars == <<parent, funcs, ownership, scheme, list, listAlive, freeCount, destroyCount,
          added, call, resVars>>

\* ----------------------------------------------------------------- helpers
Range(s) == {s[i] : i \in 1..Len(s)}

Event(e, t) == [ev |-> e, node |-> t]

\* the events of kind e in a log, as the sequence of their nodes
RECURSIVE NodesOf(_, _)
NodesOf(log, e) ==
    IF log = <<>> THEN <<>>
    ELSE (IF Head(log).ev = e THEN <<Head(log).node>> ELSE <<>>) \o NodesOf(Tail(log), e)

Count(log, e, t) == Cardinality({i \in 1..Len(log) : log[i] = Event(e, t)})

\* the chain from t to the root along parent links
RECURSIVE Chain(_)
Chain(t) == IF t = NULL THEN <<>> ELSE <<t>> \o Chain(parent[t])

Live(t) == freeCount[t] = 0
ChainLive(t) == \A n \in Range(Chain(t)) : Live(n)

NoCallbackRets == [n \in Nodes |-> ESP_OK]
NoCloseRets == [n \in Nodes |-> 0]

\* an allocation a pointer holds (NULL: none)
Mem == 1

\* the mutable part of a resource table: the slots' flags and targets, and
\* the allocations lost
NoTable == [initialized |-> <<>>, target |-> <<>>, lost |-> 0]
Table == [initialized |-> initialized, target |-> target, lost |-> lost]

\* the list handle (a handle value that is no node)
ListHandle == MaxNodes + 1

\* the record of a public call: its arguments, the callback results the
\* environment chose, the events it performed and what it returned
\* (for the calls on a resource table: the table before the call, the slot a
\* manual allocation filled, what each slot's init function, the parent's
\* _connect and _close and strdup would return, whether the server redirects,
\* and for a call made right after a call of the same function or of its
\* counterpart: again, and the events and the result of the call before it;
\* for a chain walk followed callback by callback: fn, the chain function
\* called, pc, "walking" until it returns, and node, the node the walk is at)
NoCall == [op |-> "none", h |-> NULL, t |-> NULL, s |-> NoScheme,
           o |-> ESP_TRANSPORT_OWNERSHIP_NONE, present |-> FALSE, agg |-> FALSE,
           oom |-> FALSE, cbret |-> NoCallbackRets, closeret |-> NoCloseRets,
           entries |-> <<>>, visited |-> <<>>, log |-> <<>>,
           ret |-> ESP_OK, node |-> NULL,
           before |-> NoTable, slot |-> 0, initret |-> <<>>, pconn |-> 0, pclose |-> 0,
           dup |-> FALSE, redirect |-> FALSE, checked |-> FALSE,
           again |-> FALSE, prev |-> <<>>, prevret |-> ESP_OK,
           fn |-> "none", pc |-> "done"]

\* the mutable part of the heap the teardown walkers thread through
Heap == [scheme |-> scheme, freeCount |-> freeCount, destroyCount |-> destroyCount]

\* ------------------------------------------------- transport list (registry)

\* esp_transport_list_add_ex with STAILQ_INSERT_HEAD in place of STAILQ_INSERT_TAIL
esp_transport_list_add_ex_head(h, t, s, o, oom) ==
    IF h = NULL \/ t = NULL
    THEN [ownership |-> ownership, scheme |-> scheme, list |-> list,
          ret |-> ESP_ERR_INVALID_ARG]
    ELSE IF oom
    THEN [ownership |-> [ownership EXCEPT ![t] = o],
          scheme |-> [scheme EXCEPT ![t] = NoScheme],
          list |-> list, ret |-> ESP_ERR_NO_MEM]
    ELSE [ownership |-> [ownership EXCEPT ![t] = o],
          scheme |-> [scheme EXCEPT ![t] = s],
          list |-> <<t>> \o list, ret |-> ESP_OK]

\* esp_transport_list_add_ex that checks t but not h for NULL
esp_transport_list_add_ex_unchecked(h, t, s, o, oom) ==
    IF t = NULL
    THEN [ownership |-> ownership, scheme |-> scheme, list |-> list,
          ret |-> ESP_ERR_INVALID_ARG]
    ELSE IF oom
    THEN [ownership |-> [ownership EXCEPT ![t] = o],
          scheme |-> [scheme EXCEPT ![t] = NoScheme],
          list |-> list, ret |-> ESP_ERR_NO_MEM]
    ELSE [ownership |-> [ownership EXCEPT ![t] = o],
          scheme |-> [scheme EXCEPT ![t] = s],
          list |-> IF h = NULL THEN list ELSE Append(list, t), ret |-> ESP_OK]

\* esp_transport_list_add_ex: the fields after the call and its result.
\* oom: the calloc of the scheme copy fails.
esp_transport_list_add_ex(h, t, s, o, oom) ==
    IF h = NULL \/ t = NULL
    THEN [ownership |-> ownership, scheme |-> scheme, list |-> list,
          ret |-> ESP_ERR_INVALID_ARG]
    ELSE IF oom
    THEN [ownership |-> [ownership EXCEPT ![t] = o],
          scheme |-> [scheme EXCEPT ![t] = NoScheme],
          list |-> list, ret |-> ESP_ERR_NO_MEM]
    ELSE [ownership |-> [ownership EXCEPT ![t] = o],
          scheme |-> [scheme EXCEPT ![t] = s],
          list |-> Append(list, t), ret |-> ESP_OK]

\* esp_transport_list_add defaulting to ESP_TRANSPORT_OWNERSHIP_NONE
esp_transport_list_add_none(h, t, s, oom) ==
    esp_transport_list_add_ex(h, t, s, ESP_TRANSPORT_OWNERSHIP_NONE, oom)

\* esp_transport_list_add: the legacy add
esp_transport_list_add(h, t, s, oom) ==
    esp_transport_list_add_ex(h, t, s, ESP_TRANSPORT_OWNERSHIP_EXCLUSIVE, oom)

\* esp_transport_destroy: the single-node destroy the list's clean calls.
\* Runs the node's own _destroy (its result is dropped), frees the scheme
\* label and the node record; the parent is not touched.
esp_transport_destroy(H, t) ==
    IF t = NULL THEN [heap |-> H, log |-> <<>>]
    ELSE [heap |-> [H EXCEPT !.freeCount[t] = @ + 1,
                             !.destroyCount[t] = @ + (IF funcs[t] THEN 1 ELSE 0)],
          log |-> (IF funcs[t] THEN <<Event("destroy", t)>> ELSE <<>>)
                  \o (IF H.scheme[t] # NoScheme THEN <<Event("free_scheme", t)>> ELSE <<>>)
                  \o <<Event("free_node", t)>>]

\* the loop of esp_transport_list_clean without the ownership check (every
\* item is destroyed, as before the ownership model)
RECURSIVE list_clean_loop_destroy_all(_, _)
list_clean_loop_destroy_all(H, i) ==
    IF i > Len(list) THEN [heap |-> H, log |-> <<>>]
    ELSE LET item == list[i]
             d == esp_transport_destroy(H, item)
             rest == list_clean_loop_destroy_all(d.heap, i + 1)
         IN [heap |-> rest.heap,
             log |-> <<Event("esp_transport_destroy", item)>> \o d.log \o rest.log]

\* esp_transport_destroy on t and then on every node below it
RECURSIVE destroy_with_parents(_, _)
destroy_with_parents(H, t) ==
    IF t = NULL THEN [heap |-> H, log |-> <<>>]
    ELSE LET d == esp_transport_destroy(H, t)
             rest == destroy_with_parents(d.heap, parent[t])
         IN [heap |-> rest.heap, log |-> d.log \o rest.log]

\* the loop of esp_transport_list_clean that tears down the whole chain below
\* an EXCLUSIVE item
RECURSIVE list_clean_loop_destroys_parents(_, _)
list_clean_loop_destroys_parents(H, i) ==
    IF i > Len(list) THEN [heap |-> H, log |-> <<>>]
    ELSE LET item == list[i]
             step == IF ownership[item] = ESP_TRANSPORT_OWNERSHIP_EXCLUSIVE
                     THEN LET d == destroy_with_parents(H, item)
                          IN [heap |-> d.heap,
                              log |-> <<Event("esp_transport_destroy", item)>> \o d.log]
                     ELSE IF H.scheme[item] # NoScheme
                          THEN [heap |-> [H EXCEPT !.scheme[item] = NoScheme],
                                log |-> <<Event("free_scheme", item)>>]
                          ELSE [heap |-> H, log |-> <<>>]
             rest == list_clean_loop_destroys_parents(step.heap, i + 1)
         IN [heap |-> rest.heap, log |-> step.log \o rest.log]

\* the loop of esp_transport_list_clean that destroys every item not tagged
\* NONE (SHARED as EXCLUSIVE)
RECURSIVE list_clean_loop_shared_destroyed(_, _)
list_clean_loop_shared_destroyed(H, i) ==
    IF i > Len(list) THEN [heap |-> H, log |-> <<>>]
    ELSE LET item == list[i]
             step == IF ownership[item] # ESP_TRANSPORT_OWNERSHIP_NONE
                     THEN LET d == esp_transport_destroy(H, item)
                          IN [heap |-> d.heap,
                              log |-> <<Event("esp_transport_destroy", item)>> \o d.log]
                     ELSE IF H.scheme[item] # NoScheme
                          THEN [heap |-> [H EXCEPT !.scheme[item] = NoScheme],
                                log |-> <<Event("free_scheme", item)>>]
                          ELSE [heap |-> H, log |-> <<>>]
             rest == list_clean_loop_shared_destroyed(step.heap, i + 1)
         IN [heap |-> rest.heap, log |-> step.log \o rest.log]

\* the loop of esp_transport_list_clean that frees the label of an item it
\* skips without setting item->scheme to NULL
RECURSIVE list_clean_loop_on_keeps_label(_, _, _)
list_clean_loop_on_keeps_label(own, H, i) ==
    IF i > Len(list) THEN [heap |-> H, log |-> <<>>]
    ELSE LET item == list[i]
             step == IF own[item] = ESP_TRANSPORT_OWNERSHIP_EXCLUSIVE
                     THEN LET d == esp_transport_destroy(H, item)
                          IN [heap |-> d.heap,
                              log |-> <<Event("esp_transport_destroy", item)>> \o d.log]
                     ELSE IF H.scheme[item] # NoScheme
                          THEN [heap |-> H, log |-> <<Event("free_scheme", item)>>]
                          ELSE [heap |-> H, log |-> <<>>]
             rest == list_clean_loop_on_keeps_label(own, step.heap, i + 1)
         IN [heap |-> rest.heap, log |-> step.log \o rest.log]

\* the loop of esp_transport_list_clean over the items from position i on.
\* own[item]: what the read of item->ownership gives; H.scheme[item]: what
\* the read of item->scheme gives
RECURSIVE list_clean_loop_on(_, _, _)
list_clean_loop_on(own, H, i) ==
    IF i > Len(list) THEN [heap |-> H, log |-> <<>>]
    ELSE LET item == list[i]
             step == IF own[item] = ESP_TRANSPORT_OWNERSHIP_EXCLUSIVE
                     THEN LET d == esp_transport_destroy(H, item)
                          IN [heap |-> d.heap,
                              log |-> <<Event("esp_transport_destroy", item)>> \o d.log]
                     ELSE IF H.scheme[item] # NoScheme
                          THEN [heap |-> [H EXCEPT !.scheme[item] = NoScheme],
                                log |-> <<Event("free_scheme", item)>>]
                          ELSE [heap |-> H, log |-> <<>>]
             rest == list_clean_loop_on(own, step.heap, i + 1)
         IN [heap |-> rest.heap, log |-> step.log \o rest.log]

\* the loop over a list whose items are all live: the reads give the fields
list_clean_loop(H, i) == list_clean_loop_on(ownership, H, i)

\* esp_transport_list_clean
esp_transport_list_clean(h) ==
    IF h = NULL
    THEN [heap |-> Heap, list |-> list, log |-> <<>>, ret |-> ESP_ERR_INVALID_ARG]
    ELSE LET r == list_clean_loop(Heap, 1)
         IN [heap |-> r.heap, list |-> <<>>, log |-> r.log, ret |-> ESP_OK]

\* esp_transport_list_get_transport: first entry whose label equals s
RECURSIVE list_get_from(_, _)
list_get_from(i, s) ==
    IF i > Len(list) THEN NULL
    ELSE IF scheme[list[i]] = s THEN list[i]
    ELSE list_get_from(i + 1, s)

esp_transport_list_get_transport(h, s) ==
    IF h = NULL THEN NULL ELSE list_get_from(1, s)

\* ------------------------------------------------------------ chain walkers

\* esp_transport_chain_execute that walks on after a failure in either mode
RECURSIVE chain_execute_never_stops(_, _, _)
chain_execute_never_stops(t, op, aggregate_errors) ==
    IF t = NULL \/ ~op.present
    THEN [visited |-> <<>>, ret |-> ESP_ERR_INVALID_ARG]
    ELSE LET err == op.ret[t]
         IN IF parent[t] # NULL
            THEN LET p == chain_execute_never_stops(parent[t], op, aggregate_errors)
                     first_error2 == IF err # ESP_OK THEN err ELSE p.ret
                     err2 == IF p.ret # ESP_OK /\ aggregate_errors THEN p.ret ELSE err
                 IN [visited |-> <<t>> \o p.visited,
                     ret |-> IF aggregate_errors THEN err2 ELSE first_error2]
            ELSE [visited |-> <<t>>, ret |-> err]

\* esp_transport_chain_execute that returns at the first failure in either mode
RECURSIVE chain_execute_always_stops(_, _, _)
chain_execute_always_stops(t, op, aggregate_errors) ==
    IF t = NULL \/ ~op.present
    THEN [visited |-> <<>>, ret |-> ESP_ERR_INVALID_ARG]
    ELSE LET err == op.ret[t]
         IN IF err # ESP_OK
            THEN [visited |-> <<t>>, ret |-> err]
            ELSE IF parent[t] # NULL
            THEN LET p == chain_execute_always_stops(parent[t], op, aggregate_errors)
                 IN [visited |-> <<t>> \o p.visited, ret |-> p.ret]
            ELSE [visited |-> <<t>>, ret |-> err]

\* esp_transport_chain_execute that returns first_error in either mode
RECURSIVE chain_execute_returns_first(_, _, _)
chain_execute_returns_first(t, op, aggregate_errors) ==
    IF t = NULL \/ ~op.present
    THEN [visited |-> <<>>, ret |-> ESP_ERR_INVALID_ARG]
    ELSE LET err == op.ret[t]
         IN IF err # ESP_OK /\ ~aggregate_errors
            THEN [visited |-> <<t>>, ret |-> err]
            ELSE IF parent[t] # NULL
            THEN LET p == chain_execute_returns_first(parent[t], op, aggregate_errors)
                 IN [visited |-> <<t>> \o p.visited,
                     ret |-> IF err # ESP_OK THEN err ELSE p.ret]
            ELSE [visited |-> <<t>>, ret |-> err]

\* esp_transport_chain_execute.  op.present: op # NULL; op.ret[t]: what op(t)
\* returns.  Result: the nodes op was applied to, in order, and the esp_err_t.
RECURSIVE esp_transport_chain_execute(_, _, _)
esp_transport_chain_execute(t, op, aggregate_errors) ==
    IF t = NULL \/ ~op.present
    THEN [visited |-> <<>>, ret |-> ESP_ERR_INVALID_ARG]
    ELSE LET err == op.ret[t]
             first_error == IF err # ESP_OK THEN err ELSE ESP_OK
         IN IF err # ESP_OK /\ ~aggregate_errors
            THEN [visited |-> <<t>>, ret |-> first_error]
            ELSE IF parent[t] # NULL
            THEN LET p == esp_transport_chain_execute(parent[t], op, aggregate_errors)
                     first_error2 == IF p.ret # ESP_OK /\ first_error = ESP_OK
                                     THEN p.ret ELSE first_error
                     err2 == IF p.ret # ESP_OK /\ aggregate_errors THEN p.ret ELSE err
                 IN [visited |-> <<t>> \o p.visited,
                     ret |-> IF aggregate_errors THEN err2 ELSE first_error2]
            ELSE [visited |-> <<t>>,
                  ret |-> IF aggregate_errors THEN err ELSE first_error]

\* transport_close_wrapper that hands the _close result on as it is
transport_close_wrapper_passthrough(t, closeret) ==
    IF t # NULL /\ funcs[t] THEN closeret[t] ELSE ESP_OK

\* transport_close_wrapper: closeret[t] is what t->_close(t) returns
transport_close_wrapper(t, closeret) ==
    IF t # NULL /\ funcs[t]
    THEN (IF closeret[t] = 0 THEN ESP_OK ELSE ESP_FAIL)
    ELSE ESP_OK

\* esp_transport_close_chain
esp_transport_close_chain(t, closeret) ==
    esp_transport_chain_execute(
        t,
        [present |-> TRUE, ret |-> [n \in Nodes |-> transport_close_wrapper(n, closeret)]],
        FALSE)

\* esp_transport_destroy_chain that gives up the walk when a _destroy fails
RECURSIVE destroy_chain_stops_on_error(_, _, _)
destroy_chain_stops_on_error(H, t, cbret) ==
    IF t = NULL THEN [heap |-> H, log |-> <<>>, ret |-> ESP_ERR_INVALID_ARG]
    ELSE LET p == parent[t]
             err == IF funcs[t] THEN cbret[t] ELSE ESP_OK
             log == <<Event("get_parent", t)>>
                    \o (IF funcs[t] THEN <<Event("destroy", t)>> ELSE <<>>)
                    \o (IF H.scheme[t] # NoScheme THEN <<Event("free_scheme", t)>> ELSE <<>>)
                    \o <<Event("free_node", t)>>
             H1 == [H EXCEPT !.freeCount[t] = @ + 1,
                             !.destroyCount[t] = @ + (IF funcs[t] THEN 1 ELSE 0)]
         IN IF p # NULL /\ err = ESP_OK
            THEN LET r == destroy_chain_stops_on_error(H1, p, cbret)
                 IN [heap |-> r.heap, log |-> log \o r.log, ret |-> r.ret]
            ELSE [heap |-> H1, log |-> log, ret |-> err]

\* esp_transport_destroy_chain that keeps the last error, not the first
RECURSIVE destroy_chain_keeps_last_error(_, _, _)
destroy_chain_keeps_last_error(H, t, cbret) ==
    IF t = NULL THEN [heap |-> H, log |-> <<>>, ret |-> ESP_ERR_INVALID_ARG]
    ELSE LET p == parent[t]
             err == IF funcs[t] THEN cbret[t] ELSE ESP_OK
             log == <<Event("get_parent", t)>>
                    \o (IF funcs[t] THEN <<Event("destroy", t)>> ELSE <<>>)
                    \o (IF H.scheme[t] # NoScheme THEN <<Event("free_scheme", t)>> ELSE <<>>)
                    \o <<Event("free_node", t)>>
             H1 == [H EXCEPT !.freeCount[t] = @ + 1,
                             !.destroyCount[t] = @ + (IF funcs[t] THEN 1 ELSE 0)]
         IN IF p # NULL
            THEN LET r == destroy_chain_keeps_last_error(H1, p, cbret)
                 IN [heap |-> r.heap, log |-> log \o r.log,
                     ret |-> IF r.ret # ESP_OK THEN r.ret ELSE err]
            ELSE [heap |-> H1, log |-> log, ret |-> err]

\* esp_transport_destroy_chain that reads t->parent only after free(t)
RECURSIVE destroy_chain_parent_after_free(_, _, _)
destroy_chain_parent_after_free(H, t, cbret) ==
    IF t = NULL THEN [heap |-> H, log |-> <<>>, ret |-> ESP_ERR_INVALID_ARG]
    ELSE LET p == parent[t]
             err == IF funcs[t] THEN cbret[t] ELSE ESP_OK
             log == (IF funcs[t] THEN <<Event("destroy", t)>> ELSE <<>>)
                    \o (IF H.scheme[t] # NoScheme THEN <<Event("free_scheme", t)>> ELSE <<>>)
                    \o <<Event("free_node", t)>>
                    \o <<Event("get_parent", t)>>
             H1 == [H EXCEPT !.freeCount[t] = @ + 1,
                             !.destroyCount[t] = @ + (IF funcs[t] THEN 1 ELSE 0)]
         IN IF p # NULL
            THEN LET r == destroy_chain_parent_after_free(H1, p, cbret)
                 IN [heap |-> r.heap, log |-> log \o r.log,
                     ret |-> IF r.ret # ESP_OK /\ err = ESP_OK THEN r.ret ELSE err]
            ELSE [heap |-> H1, log |-> log, ret |-> err]

\* esp_transport_destroy_chain.  cbret[t] is what t->_destroy(t) returns.
RECURSIVE esp_transport_destroy_chain(_, _, _)
esp_transport_destroy_chain(H, t, cbret) ==
    IF t = NULL THEN [heap |-> H, log |-> <<>>, ret |-> ESP_ERR_INVALID_ARG]
    ELSE LET p == parent[t]
             err == IF funcs[t] THEN cbret[t] ELSE ESP_OK
             log == <<Event("get_parent", t)>>
                    \o (IF funcs[t] THEN <<Event("destroy", t)>> ELSE <<>>)
                    \o (IF H.scheme[t] # NoScheme THEN <<Event("free_scheme", t)>> ELSE <<>>)
                    \o <<Event("free_node", t)>>
             H1 == [H EXCEPT !.freeCount[t] = @ + 1,
                             !.destroyCount[t] = @ + (IF funcs[t] THEN 1 ELSE 0)]
         IN IF p # NULL
            THEN LET r == esp_transport_destroy_chain(H1, p, cbret)
                 IN [heap |-> r.heap, log |-> log \o r.log,
                     ret |-> IF r.ret # ESP_OK /\ err = ESP_OK THEN r.ret ELSE err]
            ELSE [heap |-> H1, log |-> log, ret |-> err]

\* esp_transport_get_parent that returns the node itself
esp_transport_get_parent_self(t) == t

\* esp_transport_get_parent
esp_transport_get_parent(t) == IF t # NULL THEN parent[t] ELSE NULL



\* --------------------------------------------------------- resource tracker

\* ws_buffer_init / buffer_init: *handle = malloc(size); ok: malloc succeeds
ws_buffer_init(ok) ==
    [handle |-> IF ok THEN Mem ELSE NULL, ret |-> IF ok THEN ESP_OK ELSE ESP_ERR_NO_MEM]

\* ws_buffer_cleanup / ws_string_cleanup / buffer_cleanup / string_cleanup:
\* frees *handle when it is not NULL and sets it to NULL
ws_buffer_cleanup(handle) == [handle |-> NULL, freed |-> handle # NULL]

\* *handle_ptr = v: an allocation the pointer held until now is lost
Store(T, i, v) ==
    [T EXCEPT !.target[i] = v, !.lost = @ + (IF T.target[i] # NULL THEN 1 ELSE 0)]

\* cleanup of one slot that leaves the slot marked initialized
cleanup_slot_keeps_flag(T, i) ==
    LET c == ws_buffer_cleanup(T.target[i])
    IN [table |-> [T EXCEPT !.target[i] = NULL],
        log |-> <<Event("cleanup", i)>> \o (IF c.freed THEN <<Event("free", i)>> ELSE <<>>)]

\* the tracker cleans one slot up: calls its cleanup function, clears
\* initialized and empties the target
cleanup_slot(T, i) ==
    LET c == ws_buffer_cleanup(T.target[i])
    IN [table |-> [T EXCEPT !.initialized[i] = FALSE, !.target[i] = NULL],
        log |-> <<Event("cleanup", i)>> \o (IF c.freed THEN <<Event("free", i)>> ELSE <<>>)]

\* a failed init that rolls nothing back
resources_rollback_none(T, done, j) == [table |-> T, log |-> <<>>]

\* a rollback in the order of the slots: cleanup of done[1], ..., done[j]
RECURSIVE resources_rollback_forward(_, _, _)
resources_rollback_forward(T, done, j) ==
    IF j = 0 THEN [table |-> T, log |-> <<>>]
    ELSE LET rest == resources_rollback_forward(T, done, j - 1)
             c == cleanup_slot(rest.table, done[j])
         IN [table |-> c.table, log |-> rest.log \o c.log]

\* the rollback of a failed init: cleanup of done[j], ..., done[1]
RECURSIVE resources_rollback(_, _, _)
resources_rollback(T, done, j) ==
    IF j = 0 THEN [table |-> T, log |-> <<>>]
    ELSE LET c == cleanup_slot(T, done[j])
             rest == resources_rollback(c.table, done, j - 1)
         IN [table |-> rest.table, log |-> c.log \o rest.log]

\* transport_resources_init that does not look at the initialized flag
RECURSIVE resources_init_from_always(_, _, _, _)
resources_init_from_always(T, i, initret, done) ==
    IF i > Len(hasInit) THEN [table |-> T, log |-> <<>>, ret |-> ESP_OK, failed |-> 0]
    ELSE IF hasInit[i]
    THEN LET r == ws_buffer_init(initret[i])
             T1 == Store(T, i, r.handle)
         IN IF r.ret = ESP_OK
            THEN LET rest == resources_init_from_always([T1 EXCEPT !.initialized[i] = TRUE],
                                                        i + 1, initret, Append(done, i))
                 IN [rest EXCEPT !.log = <<Event("init", i)>> \o @]
            ELSE LET rb == resources_rollback(T1, done, Len(done))
                 IN [table |-> rb.table, log |-> <<Event("init", i)>> \o rb.log,
                     ret |-> r.ret, failed |-> i]
    ELSE resources_init_from_always(T, i + 1, initret, done)

\* transport_resources_init from slot i on; done: the slots this call has
\* initialized; initret[i]: the allocation of slot i's init function succeeds
RECURSIVE resources_init_from(_, _, _, _)
resources_init_from(T, i, initret, done) ==
    IF i > Len(hasInit) THEN [table |-> T, log |-> <<>>, ret |-> ESP_OK, failed |-> 0]
    ELSE IF ~T.initialized[i] /\ hasInit[i]
    THEN LET r == ws_buffer_init(initret[i])
             T1 == Store(T, i, r.handle)
         IN IF r.ret = ESP_OK
            THEN LET rest == resources_init_from([T1 EXCEPT !.initialized[i] = TRUE],
                                                 i + 1, initret, Append(done, i))
                 IN [rest EXCEPT !.log = <<Event("init", i)>> \o @]
            ELSE LET rb == resources_rollback(T1, done, Len(done))
                 IN [table |-> rb.table, log |-> <<Event("init", i)>> \o rb.log,
                     ret |-> r.ret, failed |-> i]
    ELSE resources_init_from(T, i + 1, initret, done)

\* transport_resources_init(resources, config)
transport_resources_init(T, initret) == resources_init_from(T, 1, initret, <<>>)

\* transport_resources_cleanup from slot i down to the first
RECURSIVE resources_cleanup_from(_, _)
resources_cleanup_from(T, i) ==
    IF i = 0 THEN [table |-> T, log |-> <<>>]
    ELSE LET c == IF T.initialized[i] THEN cleanup_slot(T, i)
                  ELSE [table |-> T, log |-> <<>>]
             rest == resources_cleanup_from(c.table, i - 1)
         IN [table |-> rest.table, log |-> c.log \o rest.log]

\* transport_resources_cleanup that cleans only the slots with an init function
RECURSIVE resources_cleanup_init_only(_, _)
resources_cleanup_init_only(T, i) ==
    IF i = 0 THEN [table |-> T, log |-> <<>>]
    ELSE LET c == IF T.initialized[i] /\ hasInit[i] THEN cleanup_slot(T, i)
                  ELSE [table |-> T, log |-> <<>>]
             rest == resources_cleanup_init_only(c.table, i - 1)
         IN [table |-> rest.table, log |-> c.log \o rest.log]

transport_resources_cleanup_init_only(T) == resources_cleanup_init_only(T, Len(hasInit))

\* transport_resources_cleanup(resources)
transport_resources_cleanup(T) == resources_cleanup_from(T, Len(hasInit))

\* layer code fills slot i, which has no init function: *handle = strdup(..)
\* (dup: strdup succeeds), then marks the slot initialized; checked: only
\* when the pointer is not NULL (as ws_connect_after does for redir_host),
\* else whatever strdup returned (as my_transport_connect_after does for
\* hostname)
manual_alloc(T, i, dup, checked) ==
    LET T1 == Store(T, i, IF dup THEN Mem ELSE NULL)
    IN [table |-> [T1 EXCEPT !.initialized[i] = IF checked THEN (@ \/ dup) ELSE TRUE],
        log |-> <<Event("alloc", i)>>]

\* ------------------------------------------------- layers with a resource table

\* the tables the layer constructors declare: resources[i].init # NULL.
\* esp_transport_ws_init_after: buffer, redir_host, path, sub_protocol,
\* user_agent, headers, auth; my_transport_init_after: buffer, hostname
WsSlots == <<TRUE, FALSE, FALSE, FALSE, FALSE, FALSE, FALSE>>
MySlots == <<TRUE, FALSE>>
\* the slot of ws->redir_host and of ctx->hostname
RedirHostSlot == 2
HostnameSlot == 2
\* what ws_connect_after returns on a redirect (a positive HTTP status)
HTTP_REDIRECT_CODE == 301

\* the node of the layer: the WebSocket node is the top of the chain, the
\* node of my_transport_init_after is a bare esp_transport_init node
LayerNode == IF kind = "ws" THEN MaxNodes ELSE 1

\* ws_connect_after that leaves the parent connected when its own init fails
ws_connect_after_parent_left_open(T, t, pconn, initret, redirect, dup) ==
    IF pconn < 0
    THEN [table |-> T, log |-> <<Event("connect", parent[t])>>, ret |-> -1]
    ELSE LET r == transport_resources_init(T, initret)
         IN IF r.ret # ESP_OK
            THEN [table |-> r.table,
                  log |-> <<Event("connect", parent[t])>> \o r.log,
                  ret |-> -1]
            ELSE IF redirect
            THEN LET m == manual_alloc(r.table, RedirHostSlot, dup, TRUE)
                 IN [table |-> m.table,
                     log |-> <<Event("connect", parent[t])>> \o r.log \o m.log,
                     ret |-> HTTP_REDIRECT_CODE]
            ELSE [table |-> r.table, log |-> <<Event("connect", parent[t])>> \o r.log,
                  ret |-> 0]

\* ws_connect_after.  pconn: what esp_transport_connect(ws->parent, ..)
\* returns; redirect: redirect_detected; dup: strndup succeeds
ws_connect_after(T, t, pconn, initret, redirect, dup) ==
    IF pconn < 0
    THEN [table |-> T, log |-> <<Event("connect", parent[t])>>, ret |-> -1]
    ELSE LET r == transport_resources_init(T, initret)
         IN IF r.ret # ESP_OK
            THEN [table |-> r.table,
                  log |-> <<Event("connect", parent[t])>> \o r.log
                          \o <<Event("close", parent[t])>>,
                  ret |-> -1]
            ELSE IF redirect
            THEN LET m == manual_alloc(r.table, RedirHostSlot, dup, TRUE)
                 IN [table |-> m.table,
                     log |-> <<Event("connect", parent[t])>> \o r.log \o m.log,
                     ret |-> HTTP_REDIRECT_CODE]
            ELSE [table |-> r.table, log |-> <<Event("connect", parent[t])>> \o r.log,
                  ret |-> 0]

\* my_transport_connect_after.  dup: strdup(host) succeeds
my_transport_connect_after(T, t, initret, dup) ==
    LET r == transport_resources_init(T, initret)
    IN IF r.ret # ESP_OK
       THEN [table |-> r.table, log |-> r.log, ret |-> -1]
       ELSE LET m == manual_alloc(r.table, HostnameSlot, dup, FALSE)
            IN [table |-> m.table, log |-> r.log \o m.log, ret |-> 0]

\* ws_close_after that frees nothing (as ws_close_before)
ws_close_after_no_cleanup(T, t, pclose) ==
    [table |-> T, log |-> <<Event("close", parent[t])>>, ret |-> pclose]

\* ws_close_after.  pclose: what esp_transport_close(ws->parent) returns
ws_close_after(T, t, pclose) ==
    LET c == transport_resources_cleanup(T)
    IN [table |-> c.table, log |-> c.log \o <<Event("close", parent[t])>>, ret |-> pclose]

\* my_transport_close_after that frees nothing (as my_transport_close_before)
my_transport_close_after_no_cleanup(T, t) == [table |-> T, log |-> <<>>, ret |-> 0]

\* my_transport_close_after
my_transport_close_after(T, t) ==
    LET c == transport_resources_cleanup(T)
    IN [table |-> c.table, log |-> c.log, ret |-> 0]

\* ws_destroy_after / my_transport_destroy_after: cleanup, then free(ws); an
\* allocation a field of the freed context still pointed to is lost
ws_destroy_after(T, t) ==
    LET c == transport_resources_cleanup(T)
    IN [table |-> [c.table EXCEPT
                     !.target = [i \in 1..Len(c.table.target) |-> NULL],
                     !.lost = @ + Cardinality({i \in 1..Len(c.table.target) :
                                                 c.table.target[i] # NULL})],
        log |-> c.log \o <<Event("free_ctx", t)>>, ret |-> ESP_OK]

\* t->_connect, t->_close, t->_destroy of the layer node
layer_connect(T, t, pconn, initret, redirect, dup) ==
    IF kind = "ws" THEN ws_connect_after(T, t, pconn, initret, redirect, dup)
    ELSE my_transport_connect_after(T, t, initret, dup)

layer_close(T, t, pclose) ==
    IF kind = "ws" THEN ws_close_after(T, t, pclose) ELSE my_transport_close_after(T, t)

layer_destroy(T, t) == ws_destroy_after(T, t)

\* ------------------------------------------------------------------- state

\* parent maps a layer constructor can build: the parent exists before the
\* child (so no cycle) and no node is the parent of two nodes (a simple path)
ParentMaps ==
    {f \in [Nodes -> Handles] :
        /\ \A n \in Nodes : f[n] < n
        /\ \A m, n \in Nodes : (m # n /\ f[m] # NULL) => f[m] # f[n]}

\* a layer built over a parent always installs its function table; a base
\* node may be a bare esp_transport_init() node
FuncTables(par) == {g \in [Nodes -> BOOLEAN] : \A n \in Nodes : par[n] # NULL => g[n]}

\* the fields esp_transport_init and the list constructor leave
InitFields ==
    /\ ownership = [n \in Nodes |-> ESP_TRANSPORT_OWNERSHIP_EXCLUSIVE]
    /\ scheme = [n \in Nodes |-> NoScheme]
    /\ list = <<>>
    /\ listAlive = TRUE
    /\ freeCount = [n \in Nodes |-> 0]
    /\ destroyCount = [n \in Nodes |-> 0]
    /\ added = <<>>
    /\ call = NoCall

\* a node whose context declares no resource table
NoResources ==
    /\ kind = "none"
    /\ hasInit = <<>>
    /\ initialized = <<>>
    /\ target = <<>>
    /\ lost = 0
    /\ ctxAlive = TRUE
    /\ cycles = 0
    /\ phase = "closed"

\* the registry examples: one chain MaxNodes -> ... -> 2 -> 1 (ws -> ssl -> tcp)
\* of nodes built by layer constructors, each with its function table
Init ==
    /\ parent = [n \in Nodes |-> n - 1]
    /\ funcs = [n \in Nodes |-> TRUE]
    /\ InitFields
    /\ NoResources

\* any forest of simple chains
InitChain ==
    /\ parent \in ParentMaps
    /\ funcs \in FuncTables(parent)
    /\ InitFields
    /\ NoResources

\* a list handle the caller can pass: absent, or the list while it exists
ListArgs == {NULL} \cup (IF listAlive THEN {ListHandle} ELSE {})
\* a node the caller can add: absent, or a live node not yet linked in the list
AddArgs == {NULL} \cup {t \in Nodes : Live(t) /\ t \notin Range(list)}
\* a chain top the caller can pass: absent, or a node whose chain is live
ChainArgs == {NULL} \cup {t \in Nodes : ChainLive(t)}
\* callback results for the nodes of t's chain (no callback runs elsewhere)
CallbackRets(t) ==
    {f \in [Nodes -> CallbackErrs] : \A n \in Nodes : n \notin Range(Chain(t)) => f[n] = ESP_OK}
CloseCallbackRets(t) ==
    {f \in [Nodes -> CloseRets] : \A n \in Nodes : n \notin Range(Chain(t)) => f[n] = 0}
\* the scheme and ownership arguments of an add: any when both handles are
\* present; one representative when a handle is absent (they are not read)
SchemeArgs(h, t) == IF h = NULL \/ t = NULL THEN {"ws"} ELSE Schemes
OwnershipArgs(h, t) ==
    IF h = NULL \/ t = NULL THEN {ESP_TRANSPORT_OWNERSHIP_NONE} ELSE Ownerships

Idle == call = NoCall

\* ----------------------------------------------------------------- actions

ListAddEx ==
    /\ Idle
    /\ \E h \in ListArgs, t \in AddArgs :
         \E s \in SchemeArgs(h, t), o \in OwnershipArgs(h, t),
            oom \in (IF h = NULL \/ t = NULL THEN {FALSE} ELSE BOOLEAN) :
           LET r == esp_transport_list_add_ex(h, t, s, o, oom)
           IN /\ ownership' = r.ownership
              /\ scheme' = r.scheme
              /\ list' = r.list
              /\ added' = IF r.ret = ESP_OK THEN Append(added, t) ELSE added
              /\ call' = [NoCall EXCEPT !.op = "list_add_ex", !.h = h, !.t = t, !.s = s,
                                        !.o = o, !.oom = oom, !.ret = r.ret]
              /\ UNCHANGED <<resVars, parent, funcs, listAlive, freeCount, destroyCount>>

ListAdd ==
    /\ Idle
    /\ \E h \in ListArgs, t \in AddArgs :
         \E s \in SchemeArgs(h, t),
            oom \in (IF h = NULL \/ t = NULL THEN {FALSE} ELSE BOOLEAN) :
           LET r == esp_transport_list_add(h, t, s, oom)
           IN /\ ownership' = r.ownership
              /\ scheme' = r.scheme
              /\ list' = r.list
              /\ added' = IF r.ret = ESP_OK THEN Append(added, t) ELSE added
              /\ call' = [NoCall EXCEPT !.op = "list_add", !.h = h, !.t = t, !.s = s,
                                        !.oom = oom, !.ret = r.ret]
              /\ UNCHANGED <<resVars, parent, funcs, listAlive, freeCount, destroyCount>>

ListClean ==
    /\ Idle
    /\ \E h \in ListArgs :
         LET r == esp_transport_list_clean(h)
         IN /\ scheme' = r.heap.scheme
            /\ freeCount' = r.heap.freeCount
            /\ destroyCount' = r.heap.destroyCount
            /\ list' = r.list
            /\ added' = IF h = NULL THEN added ELSE <<>>
            /\ call' = [NoCall EXCEPT !.op = "list_clean", !.h = h, !.entries = list,
                                      !.log = r.log, !.ret = r.ret]
            /\ UNCHANGED <<resVars, parent, funcs, ownership, listAlive>>

\* esp_transport_list_destroy: clean, then free the list's own storage
ListDestroy ==
    /\ Idle
    /\ listAlive
    /\ LET r == esp_transport_list_clean(ListHandle)
       IN /\ scheme' = r.heap.scheme
          /\ freeCount' = r.heap.freeCount
          /\ destroyCount' = r.heap.destroyCount
          /\ list' = r.list
          /\ listAlive' = FALSE
          /\ added' = <<>>
          /\ call' = [NoCall EXCEPT !.op = "list_destroy", !.h = ListHandle,
                                    !.entries = list, !.log = r.log, !.ret = ESP_OK]
          /\ UNCHANGED <<resVars, parent, funcs, ownership>>

ListGet ==
    /\ Idle
    /\ \E h \in ListArgs, s \in Schemes :
         /\ call' = [NoCall EXCEPT !.op = "list_get", !.h = h, !.s = s,
                                   !.node = esp_transport_list_get_transport(h, s)]
         /\ UNCHANGED <<resVars, parent, funcs, ownership, scheme, list, listAlive, freeCount,
                        destroyCount, added>>

\* one call of esp_transport_chain_execute
ChainExecuteCall(t, present, agg) ==
    \E cbret \in (IF t = NULL \/ ~present THEN {NoCallbackRets} ELSE CallbackRets(t)) :
      LET r == esp_transport_chain_execute(t, [present |-> present, ret |-> cbret], agg)
      IN /\ call' = [NoCall EXCEPT
                       !.op = "chain_execute", !.t = t, !.present = present,
                       !.agg = agg, !.cbret = cbret, !.visited = r.visited,
                       !.log = [i \in 1..Len(r.visited) |-> Event("op", r.visited[i])],
                       !.ret = r.ret]
         /\ UNCHANGED <<resVars, parent, funcs, ownership, scheme, list, listAlive, freeCount,
                        destroyCount, added>>

ChainExecute ==
    /\ Idle
    /\ \E t \in ChainArgs, present \in BOOLEAN, agg \in BOOLEAN :
         ChainExecuteCall(t, present, agg)

\* the _close callbacks a close chain runs: the wrapper calls t->_close on
\* the visited nodes that have one
RECURSIVE CloseEvents(_)
CloseEvents(visited) ==
    IF visited = <<>> THEN <<>>
    ELSE (IF funcs[Head(visited)] THEN <<Event("close", Head(visited))>> ELSE <<>>)
         \o CloseEvents(Tail(visited))

\* one call of esp_transport_close_chain
CloseChainCall(t) ==
    \E closeret \in CloseCallbackRets(t) :
      LET r == esp_transport_close_chain(t, closeret)
      IN /\ call' = [NoCall EXCEPT !.op = "close_chain", !.t = t, !.present = TRUE,
                                   !.closeret = closeret, !.visited = r.visited,
                                   !.log = CloseEvents(r.visited), !.ret = r.ret]
         /\ UNCHANGED <<resVars, parent, funcs, ownership, scheme, list, listAlive, freeCount,
                        destroyCount, added>>

CloseChain ==
    /\ Idle
    /\ \E t \in ChainArgs : CloseChainCall(t)

\* one call of esp_transport_destroy_chain
DestroyChainCall(t) ==
    \E cbret \in CallbackRets(t) :
      LET r == esp_transport_destroy_chain(Heap, t, cbret)
      IN /\ scheme' = r.heap.scheme
         /\ freeCount' = r.heap.freeCount
         /\ destroyCount' = r.heap.destroyCount
         /\ call' = [NoCall EXCEPT !.op = "destroy_chain", !.t = t, !.cbret = cbret,
                                   !.log = r.log, !.ret = r.ret]
         /\ UNCHANGED <<resVars, parent, funcs, ownership, list, listAlive, added>>

DestroyChain ==
    /\ Idle
    /\ \E t \in ChainArgs : DestroyChainCall(t)

GetParent ==
    /\ Idle
    /\ \E t \in {NULL} \cup {n \in Nodes : Live(n)} :
         /\ call' = [NoCall EXCEPT !.op = "get_parent", !.t = t,
                                   !.node = esp_transport_get_parent(t)]
         /\ UNCHANGED <<resVars, parent, funcs, ownership, scheme, list, listAlive, freeCount,
                        destroyCount, added>>

\* the caller takes the result of the call that returned
Return ==
    /\ ~Idle
    /\ call' = NoCall
    /\ UNCHANGED <<resVars, parent, funcs, ownership, scheme, list, listAlive, freeCount,
                   destroyCount, added>>

\* the transport list and its teardown
Next ==
    \/ ListAddEx
    \/ ListAdd
    \/ ListClean
    \/ ListDestroy
    \/ ListGet
    \/ Return

Spec == Init /\ [][Next]_vars

\* the chain walkers
NextChain ==
    \/ ChainExecute
    \/ CloseChain
    \/ DestroyChain
    \/ GetParent
    \/ Return

SpecChain == InitChain /\ [][NextChain]_vars

\* a resource table of MaxSlots slots used directly through the tracker, with
\* any assignment of init functions to its slots
InitTracker ==
    /\ parent = [n \in Nodes |-> n - 1]
    /\ funcs = [n \in Nodes |-> TRUE]
    /\ InitFields
    /\ kind = "tracker"
    /\ hasInit \in [1..MaxSlots -> BOOLEAN]
    /\ initialized = [i \in 1..MaxSlots |-> FALSE]
    /\ target = [i \in 1..MaxSlots |-> NULL]
    /\ lost = 0
    /\ ctxAlive = TRUE
    /\ cycles = 0
    /\ phase = "closed"

\* what the init functions the call may invoke can return (the others are not
\* invoked)
InitRets ==
    {f \in [1..Len(hasInit) -> BOOLEAN] :
        \A i \in 1..Len(hasInit) : (initialized[i] \/ ~hasInit[i]) => f[i]}

\* the table after a call, unless the call lost more allocations than counted
SetTable(T) ==
    /\ T.lost <= MaxLost
    /\ initialized' = T.initialized
    /\ target' = T.target
    /\ lost' = T.lost

\* (also called again right after an init, before anything else)
ResourcesInit ==
    /\ Idle \/ call.op = "resources_init"
    /\ \E initret \in InitRets :
         LET r == transport_resources_init(Table, initret)
         IN /\ SetTable(r.table)
            /\ call' = [NoCall EXCEPT !.op = "resources_init", !.before = Table,
                                      !.initret = initret, !.slot = r.failed,
                                      !.log = r.log, !.ret = r.ret,
                                      !.again = (call.op = "resources_init"),
                                      !.prev = call.log, !.prevret = call.ret]
            /\ UNCHANGED <<kind, hasInit, ctxAlive, cycles, phase, parent, funcs, ownership,
                           scheme, list, listAlive, freeCount, destroyCount, added>>

\* (also called again right after a cleanup, before anything else)
ResourcesCleanup ==
    /\ Idle \/ call.op = "resources_cleanup"
    /\ LET r == transport_resources_cleanup(Table)
       IN /\ SetTable(r.table)
          /\ call' = [NoCall EXCEPT !.op = "resources_cleanup", !.before = Table,
                                    !.log = r.log,
                                    !.again = (call.op = "resources_cleanup"),
                                    !.prev = call.log]
          /\ UNCHANGED <<kind, hasInit, ctxAlive, cycles, phase, parent, funcs, ownership,
                         scheme, list, listAlive, freeCount, destroyCount, added>>

\* layer code fills and marks a slot that has no init function
ManualMark ==
    /\ Idle
    /\ \E i \in 1..Len(hasInit), dup \in BOOLEAN, checked \in BOOLEAN :
         /\ ~hasInit[i]
         /\ LET r == manual_alloc(Table, i, dup, checked)
            IN /\ SetTable(r.table)
               /\ call' = [NoCall EXCEPT !.op = "manual_mark", !.before = Table,
                                         !.slot = i, !.dup = dup, !.checked = checked,
                                         !.log = r.log]
         /\ UNCHANGED <<kind, hasInit, ctxAlive, cycles, phase, parent, funcs, ownership,
                        scheme, list, listAlive, freeCount, destroyCount, added>>

NextTracker ==
    \/ ResourcesInit
    \/ ResourcesCleanup
    \/ ManualMark
    \/ Return

SpecTracker == InitTracker /\ [][NextTracker]_vars

\* a layer with a resource table: a WebSocket node built by
\* esp_transport_ws_init_after over the chain below it, or a node built by
\* my_transport_init_after; nothing is allocated yet
InitLayer ==
    /\ parent = [n \in Nodes |-> n - 1]
    /\ funcs = [n \in Nodes |-> TRUE]
    /\ InitFields
    /\ kind \in {"ws", "my_transport"}
    /\ hasInit = (IF kind = "ws" THEN WsSlots ELSE MySlots)
    /\ initialized = [i \in 1..Len(hasInit) |-> FALSE]
    /\ target = [i \in 1..Len(hasInit) |-> NULL]
    /\ lost = 0
    /\ ctxAlive = TRUE
    /\ cycles = 0
    /\ phase = "closed"

\* the history after a connect and after a close
AfterConnect ==
    /\ phase' = (IF phase = "closed" THEN "connected" ELSE "broken")
    /\ cycles' = cycles

AfterClose ==
    /\ phase' = (IF phase = "connected" THEN "closed" ELSE "broken")
    /\ cycles' = (IF phase = "connected" THEN cycles + 1 ELSE cycles)

\* what the parent's _connect and _close return (a layer without parent calls neither)
ParentConnRets == IF parent[LayerNode] = NULL THEN {0} ELSE {0, -1}
ParentCloseRets == IF parent[LayerNode] = NULL THEN {0} ELSE CloseRets

\* esp_transport_connect(t, ..) on the layer node
Connect ==
    /\ Idle
    /\ ctxAlive
    /\ phase = "broken" \/ cycles < MaxCycles
    /\ \E pconn \in ParentConnRets, initret \in InitRets, redirect \in BOOLEAN,
          dup \in BOOLEAN :
         /\ (kind = "ws" /\ pconn < 0) => (redirect = FALSE /\ dup = FALSE)
         /\ kind # "ws" => redirect = FALSE
         /\ ~redirect /\ kind = "ws" => dup = FALSE
         /\ LET r == layer_connect(Table, LayerNode, pconn, initret, redirect, dup)
            IN /\ SetTable(r.table)
               /\ call' = [NoCall EXCEPT !.op = "connect", !.t = LayerNode,
                                         !.before = Table, !.pconn = pconn,
                                         !.initret = initret, !.redirect = redirect,
                                         !.dup = dup, !.log = r.log, !.ret = r.ret]
         /\ AfterConnect
         /\ UNCHANGED <<kind, hasInit, ctxAlive, parent, funcs, ownership, scheme, list,
                        listAlive, freeCount, destroyCount, added>>

\* esp_transport_close(t) on the layer node
Close ==
    /\ Idle
    /\ ctxAlive
    /\ \E pclose \in ParentCloseRets :
         LET r == layer_close(Table, LayerNode, pclose)
         IN /\ SetTable(r.table)
            /\ call' = [NoCall EXCEPT !.op = "close", !.t = LayerNode, !.before = Table,
                                      !.pclose = pclose, !.log = r.log, !.ret = r.ret]
    /\ AfterClose
    /\ UNCHANGED <<kind, hasInit, ctxAlive, parent, funcs, ownership, scheme, list,
                   listAlive, freeCount, destroyCount, added>>

\* esp_transport_destroy(t) on the layer node: its _destroy, then the
\* node's scheme and record
Destroy ==
    /\ Idle
    /\ ctxAlive
    /\ LET r == layer_destroy(Table, LayerNode)
           d == esp_transport_destroy(Heap, LayerNode)
       IN /\ SetTable(r.table)
          /\ scheme' = d.heap.scheme
          /\ freeCount' = d.heap.freeCount
          /\ destroyCount' = d.heap.destroyCount
          /\ call' = [NoCall EXCEPT !.op = "destroy", !.t = LayerNode, !.before = Table,
                                    !.log = <<Head(d.log)>> \o r.log \o Tail(d.log),
                                    !.ret = r.ret]
    /\ ctxAlive' = FALSE
    /\ UNCHANGED <<kind, hasInit, cycles, phase, parent, funcs, ownership, list, listAlive,
                   added>>

\* the _close callbacks esp_transport_close_chain runs on the visited nodes:
\* the layer node's is layer_close, which closes its parent itself
RECURSIVE LayerCloseEvents(_, _)
LayerCloseEvents(visited, layerlog) ==
    IF visited = <<>> THEN <<>>
    ELSE (IF Head(visited) = LayerNode
          THEN <<Event("close", LayerNode)>> \o layerlog
          ELSE <<Event("close", Head(visited))>>)
         \o LayerCloseEvents(Tail(visited), layerlog)

\* esp_transport_close_chain(t) on the layer node.  pclose: what the parent's
\* _close returns to the layer; closeret: what each _close returns to the walker
LayerCloseChain ==
    /\ Idle
    /\ ctxAlive
    /\ \E pclose \in ParentCloseRets, closeret \in CloseCallbackRets(LayerNode) :
         LET c == layer_close(Table, LayerNode, pclose)
             r == esp_transport_close_chain(LayerNode, [closeret EXCEPT ![LayerNode] = c.ret])
         IN /\ closeret[LayerNode] = c.ret
            /\ SetTable(c.table)
            /\ call' = [NoCall EXCEPT !.op = "close_chain", !.t = LayerNode,
                                      !.present = TRUE, !.before = Table,
                                      !.pclose = pclose, !.closeret = closeret,
                                      !.visited = r.visited,
                                      !.log = LayerCloseEvents(r.visited, c.log),
                                      !.ret = r.ret]
    /\ AfterClose
    /\ UNCHANGED <<kind, hasInit, ctxAlive, parent, funcs, ownership, scheme, list,
                   listAlive, freeCount, destroyCount, added>>

NextLayer ==
    \/ Connect
    \/ Close
    \/ Destroy
    \/ LayerCloseChain
    \/ Return

SpecLayer == InitLayer /\ [][NextLayer]_vars

\* the chain calls a caller makes without a required handle: no node, or (for
\* chain_execute) no operation
ChainExecuteAbsent ==
    /\ Idle
    /\ \E t \in ChainArgs, present \in BOOLEAN, agg \in BOOLEAN :
         /\ t = NULL \/ ~present
         /\ ChainExecuteCall(t, present, agg)

CloseChainAbsent == Idle /\ CloseChainCall(NULL)

DestroyChainAbsent == Idle /\ DestroyChainCall(NULL)

\* the transport list, and every chain call made without a required handle
NextAbsent ==
    \/ ListAddEx
    \/ ListAdd
    \/ ListClean
    \/ ListDestroy
    \/ ChainExecuteAbsent
    \/ CloseChainAbsent
    \/ DestroyChainAbsent
    \/ Return

SpecAbsent == Init /\ [][NextAbsent]_vars

\* A freed node record has no fields any more: a read of one gives any value
\* of the field's type (chosen where the read is made), so the state keeps
\* none for it.  The fields after a call, with those of the freed records
\* set to what esp_transport_init leaves
FreedOwnership(H) ==
    [n \in Nodes |-> IF H.freeCount[n] > 0 THEN ESP_TRANSPORT_OWNERSHIP_EXCLUSIVE
                      ELSE ownership[n]]
FreedScheme(H) ==
    [n \in Nodes |-> IF H.freeCount[n] > 0 THEN NoScheme ELSE H.scheme[n]]

\* esp_transport_list_add_ex(list, t, "ws", o) on a live list, with the
\* label copy allocated
ListAddExRegistered ==
    /\ Idle
    /\ listAlive
    /\ \E t \in AddArgs \ {NULL}, o \in Ownerships :
         LET r == esp_transport_list_add_ex(ListHandle, t, "ws", o, FALSE)
         IN /\ ownership' = r.ownership
            /\ scheme' = r.scheme
            /\ list' = r.list
            /\ added' = Append(added, t)
            /\ call' = [NoCall EXCEPT !.op = "list_add_ex", !.h = ListHandle, !.t = t,
                                      !.s = "ws", !.o = o, !.ret = r.ret]
            /\ UNCHANGED <<resVars, parent, funcs, listAlive, freeCount, destroyCount>>

\* esp_transport_destroy_chain(t) on a chain whose nodes may be in the list
\* (also called right after a clean of the list, before anything else); the
\* list is not touched, so it keeps its links to the nodes freed
DestroyChainRegistered ==
    /\ Idle \/ (call.op = "list_clean" /\ call.h # NULL)
    /\ \E t \in ChainArgs \ {NULL} :
         LET r == esp_transport_destroy_chain(Heap, t, NoCallbackRets)
         IN /\ ownership' = FreedOwnership(r.heap)
            /\ scheme' = FreedScheme(r.heap)
            /\ freeCount' = r.heap.freeCount
            /\ destroyCount' = r.heap.destroyCount
            /\ call' = [NoCall EXCEPT !.op = "destroy_chain", !.t = t,
                                      !.entries = list, !.log = r.log, !.ret = r.ret,
                                      !.again = (call.op = "list_clean"),
                                      !.prev = call.log]
            /\ UNCHANGED <<resVars, parent, funcs, list, listAlive, added>>

\* the entries of the list whose node record was freed
Dangling == {n \in Range(list) : ~Live(n)}

\* esp_transport_list_clean(h) on a list that may link freed nodes: own and
\* sch are what the reads of item->ownership and item->scheme give, any tag
\* and any pointer (NULL or not) on a freed record
ListCleanRegistered ==
    /\ Idle
    /\ \E g \in [Dangling -> Ownerships], gs \in [Dangling -> {"ws", NoScheme}] :
         LET own == [n \in Nodes |-> IF n \in Dangling THEN g[n] ELSE ownership[n]]
             sch == [n \in Nodes |-> IF n \in Dangling THEN gs[n] ELSE scheme[n]]
             r == list_clean_loop_on(own, [Heap EXCEPT !.scheme = sch], 1)
         IN /\ ownership' = FreedOwnership(r.heap)
            /\ scheme' = FreedScheme(r.heap)
            /\ freeCount' = r.heap.freeCount
            /\ destroyCount' = r.heap.destroyCount
            /\ list' = <<>>
            /\ added' = <<>>
            /\ call' = [NoCall EXCEPT !.op = "list_clean", !.h = ListHandle,
                                      !.entries = list, !.log = r.log, !.ret = ESP_OK]
            /\ UNCHANGED <<resVars, parent, funcs, listAlive>>

\* the transport list together with the teardown of chains whose nodes are
\* in it
NextTeardown ==
    \/ ListAddExRegistered
    \/ ListCleanRegistered
    \/ DestroyChainRegistered
    \/ Return

SpecTeardown == Init /\ [][NextTeardown]_vars

\* ------------------------------------------- the chain walks, step by step

\* what the callback the walk invokes on node t returns: op(t) for
\* chain_execute, transport_close_wrapper(t) for close_chain, t->_destroy(t)
\* (ESP_OK without one) for destroy_chain
walk_callback(c, t) ==
    IF c.fn = "chain_execute" THEN c.cbret[t]
    ELSE IF c.fn = "close_chain" THEN transport_close_wrapper(t, c.closeret)
    ELSE (IF funcs[t] THEN c.cbret[t] ELSE ESP_OK)

\* what the walk does on node t
walk_events(c, t) ==
    IF c.fn = "chain_execute" THEN <<Event("op", t)>>
    ELSE IF c.fn = "close_chain"
    THEN <<Event("op", t)>> \o (IF funcs[t] THEN <<Event("close", t)>> ELSE <<>>)
    ELSE <<Event("get_parent", t)>>
         \o (IF funcs[t] THEN <<Event("destroy", t)>> ELSE <<>>)
         \o (IF scheme[t] # NoScheme THEN <<Event("free_scheme", t)>> ELSE <<>>)
         \o <<Event("free_node", t)>>

\* a walk that goes on to the parent only after a callback that succeeded
walk_continues_on_success(c, err) == err = ESP_OK

\* the walk goes on to the parent after the callback returned err:
\* destroy_chain always, chain_execute unless err is a failure and
\* aggregate_errors is false (close_chain is chain_execute with false)
walk_continues(c, err) ==
    IF c.fn = "destroy_chain" THEN TRUE ELSE (err = ESP_OK \/ c.agg)

\* the result so far, after the callback returned err: the last failure for
\* chain_execute with aggregate_errors, the first failure otherwise
walk_result(c, err) ==
    IF err # ESP_OK /\ ((c.fn = "chain_execute" /\ c.agg) \/ c.ret = ESP_OK)
    THEN err ELSE c.ret

\* a caller calls chain_execute, close_chain or destroy_chain on a live chain
WalkStart ==
    /\ Idle
    /\ \E fn \in {"chain_execute", "close_chain", "destroy_chain"}, t \in ChainArgs \ {NULL} :
         \E agg \in (IF fn = "chain_execute" THEN BOOLEAN ELSE {FALSE}),
            cbret \in (IF fn = "close_chain" THEN {NoCallbackRets} ELSE CallbackRets(t)),
            closeret \in (IF fn = "close_chain" THEN CloseCallbackRets(t) ELSE {NoCloseRets}) :
           call' = [NoCall EXCEPT !.op = "walk", !.fn = fn, !.pc = "walking", !.t = t,
                                  !.node = t, !.present = TRUE, !.agg = agg,
                                  !.cbret = cbret, !.closeret = closeret]
    /\ UNCHANGED <<resVars, parent, funcs, ownership, scheme, list, listAlive, freeCount,
                   destroyCount, added>>

\* the walk handles the node it is at: one level of the recursion, up to its
\* recursive call or, without one, its return
WalkStep ==
    /\ call.pc = "walking"
    /\ LET t == call.node
           err == walk_callback(call, t)
           on == walk_continues(call, err) /\ parent[t] # NULL
       IN /\ call' = [call EXCEPT !.visited = Append(@, t),
                                  !.log = @ \o walk_events(call, t),
                                  !.ret = walk_result(call, err),
                                  !.node = IF on THEN parent[t] ELSE NULL,
                                  !.pc = IF on THEN "walking" ELSE "done"]
          /\ IF call.fn = "destroy_chain"
             THEN /\ freeCount' = [freeCount EXCEPT ![t] = @ + 1]
                  /\ destroyCount' = [destroyCount EXCEPT ![t] = @ + (IF funcs[t] THEN 1 ELSE 0)]
             ELSE UNCHANGED <<freeCount, destroyCount>>
    /\ UNCHANGED <<resVars, parent, funcs, ownership, scheme, list, listAlive, added>>

\* the call returned and the caller takes its result
WalkReturn ==
    /\ call.op = "walk"
    /\ call.pc = "done"
    /\ call' = NoCall
    /\ UNCHANGED <<resVars, parent, funcs, ownership, scheme, list, listAlive, freeCount,
                   destroyCount, added>>

NextWalk ==
    \/ WalkStart
    \/ WalkStep
    \/ WalkReturn

\* the walk runs on: a callback that is invoked returns, and the code after
\* it is executed
SpecWalk == InitChain /\ [][NextWalk]_vars /\ WF_vars(WalkStep)

TypeOK ==
    /\ parent \in ParentMaps
    /\ funcs \in [Nodes -> BOOLEAN]
    /\ ownership \in [Nodes -> Ownerships]
    /\ scheme \in [Nodes -> Schemes \cup {NoScheme}]
    /\ list \in Seq(Nodes)
    /\ listAlive \in BOOLEAN
    /\ freeCount \in [Nodes -> 0..2]
    /\ destroyCount \in [Nodes -> 0..2]
    /\ kind \in {"none", "tracker", "ws", "my_transport"}
    /\ hasInit \in Seq(BOOLEAN)
    /\ initialized \in [1..Len(hasInit) -> BOOLEAN]
    /\ target \in [1..Len(hasInit) -> {NULL, Mem}]
    /\ lost \in 0..MaxLost
    /\ ctxAlive \in BOOLEAN
    /\ cycles \in 0..MaxCycles
    /\ phase \in {"closed", "connected", "broken"}

\* ------------------------------------------------------------------ claims

\* the chain the last call walked, and positions in it
CallChain == Chain(call.t)
MinOf(S) == CHOOSE i \in S : \A j \in S : i <= j
MaxOf(S) == CHOOSE i \in S : \A j \in S : j <= i
Prefix(q, k) == [i \in 1..k |-> q[i]]

\* positions of the chain whose _destroy callback fails in the last call
DestroyFailures ==
    {i \in 1..Len(CallChain) : funcs[CallChain[i]] /\ call.cbret[CallChain[i]] # ESP_OK}
\* positions of the chain on which the op given to chain_execute fails
OpFailures == {i \in 1..Len(CallChain) : call.cbret[CallChain[i]] # ESP_OK}
\* positions of the chain whose _close callback returns non-zero
CloseFailures ==
    {i \in 1..Len(CallChain) : funcs[CallChain[i]] /\ call.closeret[CallChain[i]] # 0}

DestroyChainReturned == call.op = "destroy_chain" /\ call.t # NULL
ExecuteReturned(agg) ==
    call.op = "chain_execute" /\ call.t # NULL /\ call.present /\ call.agg = agg
CloseChainReturned == call.op = "close_chain" /\ call.t # NULL

C3_DestroyChainFirstError ==
    DestroyChainReturned =>
        IF DestroyFailures = {}
        THEN call.ret = ESP_OK
        ELSE call.ret = call.cbret[CallChain[MinOf(DestroyFailures)]]

\* two nodes fail with different errors; the one nearer to top is returned
C3_Witness ==
    /\ DestroyChainReturned
    /\ Cardinality(DestroyFailures) >= 2
    /\ call.cbret[CallChain[MinOf(DestroyFailures)]]
         # call.cbret[CallChain[MaxOf(DestroyFailures)]]
    /\ call.ret = call.cbret[CallChain[MinOf(DestroyFailures)]]

\* C4: fail-fast esp_transport_chain_execute applies op from the node toward
\* the root, stops at the first node op fails on, returns that node's error
\* and applies op to no ancestor beyond it.
C4_ExecuteFailFast ==
    ExecuteReturned(FALSE) =>
        IF OpFailures = {}
        THEN call.visited = CallChain /\ call.ret = ESP_OK
        ELSE /\ call.visited = Prefix(CallChain, MinOf(OpFailures))
             /\ call.ret = call.cbret[CallChain[MinOf(OpFailures)]]

\* op fails on a node that still has an ancestor, and the ancestor is not visited
C4_Witness ==
    /\ ExecuteReturned(FALSE)
    /\ OpFailures # {}
    /\ 1 < MinOf(OpFailures)
    /\ MinOf(OpFailures) < Len(CallChain)
    /\ Len(call.visited) = MinOf(OpFailures)

\* C5: aggregate esp_transport_chain_execute applies op exactly once to every
\* node of the chain, in order, whatever nodes op fails on.
C5_ExecuteAggregateVisitsAll ==
    ExecuteReturned(TRUE) =>
        /\ call.visited = CallChain
        /\ \A n \in Nodes :
             Count(call.log, "op", n) = (IF n \in Range(CallChain) THEN 1 ELSE 0)

\* op fails on the top of a chain of three and the two ancestors are visited
C5_Witness ==
    /\ ExecuteReturned(TRUE)
    /\ Len(CallChain) >= 3
    /\ 1 \in OpFailures
    /\ Len(call.visited) = Len(CallChain)

\* C6: aggregate esp_transport_chain_execute returns ESP_OK iff op succeeded
\* on every node, and otherwise the error of the failing node closest to the
\* root (also when only the top fails).
C6_ExecuteAggregateLastError ==
    ExecuteReturned(TRUE) =>
        IF OpFailures = {}
        THEN call.ret = ESP_OK
        ELSE call.ret = call.cbret[CallChain[MaxOf(OpFailures)]]

\* two failures with different errors, the one nearer the root returned
C6_Witness ==
    /\ ExecuteReturned(TRUE)
    /\ Cardinality(OpFailures) >= 2
    /\ call.cbret[CallChain[MinOf(OpFailures)]] # call.cbret[CallChain[MaxOf(OpFailures)]]
    /\ call.ret = call.cbret[CallChain[MaxOf(OpFailures)]]

\* C7 as claimed: the error esp_transport_close_chain returns is the value
\* the failing layer's _close returned, unchanged.
C7_ClosePassesThrough ==
    (CloseChainReturned /\ CloseFailures # {}) =>
        call.ret = call.closeret[CallChain[MinOf(CloseFailures)]]

\* C7 as amended: esp_transport_close_chain is the fail-fast walk with the
\* close wrapper: it closes the nodes from the given one toward the root up
\* to the first _close that returns non-zero, and returns ESP_OK when none
\* did and ESP_FAIL otherwise, whatever the non-zero value was.
C7_CloseChainFailFast ==
    CloseChainReturned =>
        IF CloseFailures = {}
        THEN call.visited = CallChain /\ call.ret = ESP_OK
        ELSE /\ call.visited = Prefix(CallChain, MinOf(CloseFailures))
             /\ NodesOf(call.log, "close")
                  = NodesOf(CloseEvents(Prefix(CallChain, MinOf(CloseFailures))), "close")
             /\ call.ret = ESP_FAIL

\* a _close below the top returns -2 and the chain returns ESP_FAIL
C7_Witness ==
    /\ CloseChainReturned
    /\ CloseFailures # {}
    /\ 1 < MinOf(CloseFailures)
    /\ call.closeret[CallChain[MinOf(CloseFailures)]] = -2
    /\ call.ret = ESP_FAIL

CleanReturned == call.op \in {"list_clean", "list_destroy"} /\ call.h # NULL
LegacyAddReturned == call.op = "list_add" /\ call.h # NULL /\ call.t # NULL
AddReturned == call.op \in {"list_add", "list_add_ex"} /\ call.h # NULL /\ call.t # NULL
GetReturned == call.op = "list_get" /\ call.h # NULL

\* C1: with ws -> ssl -> tcp, tcp and ssl in the list as NONE and ws as
\* EXCLUSIVE, esp_transport_list_destroy runs the _destroy callbacks of ws,
\* ssl and tcp, in that order.
C1_TeardownDestroysWholeChain ==
    \A ws \in Nodes :
        LET c == Chain(ws)
        IN (/\ call.op = "list_destroy"
            /\ Len(c) = 3
            /\ Range(call.entries) = Range(c)
            /\ ownership[c[1]] = ESP_TRANSPORT_OWNERSHIP_EXCLUSIVE
            /\ ownership[c[2]] = ESP_TRANSPORT_OWNERSHIP_NONE
            /\ ownership[c[3]] = ESP_TRANSPORT_OWNERSHIP_NONE)
           => NodesOf(call.log, "destroy") = c

LegacyAddEffect ==
    LegacyAddReturned =>
        /\ ownership[call.t] = ESP_TRANSPORT_OWNERSHIP_EXCLUSIVE
        /\ IF call.oom
           THEN /\ call.ret = ESP_ERR_NO_MEM
                /\ call.t \notin Range(list)
                /\ scheme[call.t] = NoScheme
           ELSE /\ call.ret = ESP_OK
                /\ list # <<>>
                /\ list[Len(list)] = call.t
                /\ scheme[call.t] = call.s
                /\ LET r == esp_transport_list_clean(call.h)
                   IN /\ Count(r.log, "esp_transport_destroy", call.t) = 1
                      /\ r.heap.freeCount[call.t] = 1

\* the ownership tag of a node does not change while it stays in the list
TagStableInList ==
    \A n \in Nodes :
        (n \in Range(list) /\ n \in Range(list')) => ownership'[n] = ownership[n]

\* C9: esp_transport_list_add(h, t, scheme) has the effect and result of
\* esp_transport_list_add_ex(h, t, scheme, EXCLUSIVE): the node is EXCLUSIVE
\* and at the tail of the list, stays EXCLUSIVE while in the list, and a clean
\* destroys it.
C9_LegacyAddIsExclusive == []LegacyAddEffect /\ [][TagStableInList]_vars

\* a legacy add returned ESP_OK behind an entry added earlier
C9_Witness ==
    /\ LegacyAddReturned
    /\ call.ret = ESP_OK
    /\ Len(list) >= 2
    /\ list[Len(list)] = call.t
    /\ ownership[call.t] = ESP_TRANSPORT_OWNERSHIP_EXCLUSIVE

\* what a lookup returns: the earliest-added entry with the label, or NULL
GetIsFirstAdded ==
    GetReturned =>
        LET hits == {i \in 1..Len(added) : scheme[added[i]] = call.s}
        IN IF hits = {} THEN call.node = NULL ELSE call.node = added[MinOf(hits)]

\* an add with both handles present that can allocate is accepted, whatever
\* labels the list already holds
AddAccepted ==
    (AddReturned /\ ~call.oom) => (call.ret = ESP_OK /\ call.t \in Range(list))

\* an add does not change what a lookup of an already-used label returns
AddKeepsLookups ==
    \A s \in Schemes :
        (/\ call'.op \in {"list_add", "list_add_ex"}
         /\ esp_transport_list_get_transport(ListHandle, s) # NULL)
        => esp_transport_list_get_transport(ListHandle, s)'
             = esp_transport_list_get_transport(ListHandle, s)

\* C10: esp_transport_list_get_transport returns the earliest-added entry
\* whose label equals the scheme, NULL when there is none; an add of an
\* already-used label is accepted and changes no lookup of that label.
C10_GetReturnsFirstAdded ==
    /\ []GetIsFirstAdded
    /\ []AddAccepted
    /\ [][AddKeepsLookups]_vars

\* two entries carry the label looked up and the earlier one is returned
C10_Witness ==
    /\ GetReturned
    /\ \E i, j \in 1..Len(added) :
         /\ i < j
         /\ scheme[added[i]] = call.s
         /\ scheme[added[j]] = call.s
         /\ call.node = added[i]

\* a call is made without a handle it requires
AbsentHandle(c) ==
    \/ c.op \in {"list_add_ex", "list_add"} /\ (c.h = NULL \/ c.t = NULL)
    \/ c.op = "list_clean" /\ c.h = NULL
    \/ c.op = "chain_execute" /\ (c.t = NULL \/ ~c.present)
    \/ c.op \in {"close_chain", "destroy_chain"} /\ c.t = NULL

\* the step is a call made without a required handle: it returns
\* ESP_ERR_INVALID_ARG, runs no callback and frees nothing, and every field of
\* every node and the list are what they were
AbsentHandleStep ==
    (Idle /\ AbsentHandle(call'))
        => /\ call'.ret = ESP_ERR_INVALID_ARG
           /\ call'.log = <<>>
           /\ call'.visited = <<>>
           /\ UNCHANGED <<parent, funcs, ownership, scheme, list, listAlive, freeCount,
                          destroyCount>>

\* C11: every public operation given an absent required handle (add without
\* list or node, clean without list, execute without node or operation,
\* closeChain and destroyChain without node) returns ESP_ERR_INVALID_ARG,
\* invokes no callback and changes no node and no list.
C11_AbsentHandleInvalidArg == [][AbsentHandleStep]_vars

\* a clean without the list, made while the list holds an entry it owns
C11_Witness ==
    /\ call.op = "list_clean"
    /\ call.h = NULL
    /\ call.ret = ESP_ERR_INVALID_ARG
    /\ \E i \in 1..Len(list) : ownership[list[i]] = ESP_TRANSPORT_OWNERSHIP_EXCLUSIVE
    /\ \E n \in Nodes : ~Live(n)

\* the slots of a table that are marked initialized
InitializedSlots(T) == {i \in 1..Len(T.initialized) : T.initialized[i]}
\* the slots of a table whose target holds an allocation
AllocatedSlots(T) == {i \in 1..Len(T.target) : T.target[i] # NULL}

CleanupReturned == call.op = "resources_cleanup"
InitFailed == call.op = "resources_init" /\ call.ret # ESP_OK

\* C12: after every cleanup of a slot sequence, whatever inits (succeeding or
\* failing) and manual marks came before it, no slot is marked initialized.
C12_NoneInitializedAfterCleanup ==
    CleanupReturned => InitializedSlots(Table) = {}

\* a cleanup of a table in which a slot filled by init and a slot marked by
\* hand were both initialized
C12_Witness ==
    /\ CleanupReturned
    /\ \E i, j \in InitializedSlots(call.before) : hasInit[i] /\ ~hasInit[j]
    /\ InitializedSlots(Table) = {}

\* C13: cleanup is idempotent.  A cleanup called right after a cleanup, with
\* no init in between, calls no slot's cleanup function and leaves the table
\* as the first cleanup left it; and from every state of the table, cleanup
\* applied twice gives the table cleanup applied once gives.
C13_CleanupIdempotent ==
    /\ (CleanupReturned /\ call.again) => (call.log = <<>> /\ Table = call.before)
    /\ LET once == transport_resources_cleanup(Table)
           twice == transport_resources_cleanup(once.table)
       IN twice.table = once.table /\ twice.log = <<>>

\* a cleanup called right after a cleanup that had freed two allocations
C13_Witness ==
    /\ CleanupReturned
    /\ call.again
    /\ Cardinality({i \in 1..Len(call.prev) : call.prev[i].ev = "free"}) >= 2
    /\ call.log = <<>>

\* the slots a failed init had initialized itself before it failed
InitializedByCall ==
    {i \in 1..(call.slot - 1) : hasInit[i] /\ ~call.before.initialized[i]}

\* C14 as claimed: after an init that failed at slot k, every slot below k is
\* uninitialized and no slot at all is initialized.
C14_FailedInitLeavesNone ==
    InitFailed =>
        /\ \A i \in 1..(call.slot - 1) : ~initialized[i]
        /\ InitializedSlots(Table) = {}

\* C14 (amended): after an init that failed at slot k, every slot the call
\* had initialized is rolled back (its cleanup called once, uninitialized,
\* target empty), the slots initialized before the call are as they were, so
\* as many slots are initialized as before the call: none when none was.
C14_FailedInitRollsBackOwn ==
    InitFailed =>
        /\ call.slot \in 1..Len(hasInit)
        /\ \A i \in InitializedByCall :
              /\ ~initialized[i]
              /\ target[i] = NULL
              /\ Count(call.log, "cleanup", i) = 1
              /\ Count(call.log, "free", i) = 1
        /\ initialized = call.before.initialized
        /\ InitializedSlots(call.before) = {} => InitializedSlots(Table) = {}
        /\ AllocatedSlots(Table) = AllocatedSlots(call.before)
        /\ lost = call.before.lost

\* an init on a clean table that fails at its third init function, after it
\* initialized two slots
C14_Witness ==
    /\ InitFailed
    /\ Cardinality(InitializedByCall) >= 2
    /\ InitializedSlots(call.before) = {}
    /\ InitializedSlots(Table) = {}

ConnectReturned == call.op = "connect"
LayerCloseReturned == call.op \in {"close", "close_chain"} /\ kind \in {"ws", "my_transport"}
DestroyReturned == call.op = "destroy"
FreesIn(log) == {i \in 1..Len(log) : log[i].ev = "free"}
\* no slot is initialized, no target holds an allocation and none was lost
NothingAllocated ==
    /\ InitializedSlots(Table) = {}
    /\ AllocatedSlots(Table) = {}
    /\ lost = 0

\* C15: after N >= 1 consecutive connect-then-close cycles on a node (each
\* connect ending in success, failure or redirect), no slot of the node is
\* marked initialized and no allocation made during the cycles is live.
C15_ReconnectDoesNotAccumulate ==
    (LayerCloseReturned /\ phase = "closed") => (cycles >= 1 /\ NothingAllocated)

\* the close of the second cycle, freeing the buffer and the redirect host
\* its connect had allocated
C15_Witness ==
    /\ LayerCloseReturned
    /\ phase = "closed"
    /\ cycles >= 2
    /\ kind = "ws"
    /\ Cardinality(AllocatedSlots(call.before)) = 2
    /\ NothingAllocated

\* C16: whenever connect returns failure, whatever connects and closes came
\* before it, no slot of the node is initialized and no session allocation
\* of the node is live.
C16_FailedConnectLeavesNothing ==
    (ConnectReturned /\ call.ret < 0)
        => (InitializedSlots(Table) = {} /\ AllocatedSlots(Table) = {})

\* C17: in every reachable state of a node's slots, a slot marked
\* initialized holds an allocation in its target, the slots layer code fills
\* and marks by hand included.
C17_InitializedHoldsResource ==
    \A i \in InitializedSlots(Table) : target[i] # NULL

\* C18: over a lifecycle of connect-then-close cycles ended by destroy, every
\* allocation is freed exactly once: each close frees each allocation its
\* connect left, once, and leaves none; the cleanup the destroy runs again
\* calls no cleanup function and frees nothing, and nothing stays allocated.
C18_CloseFreesDestroyFreesNothing ==
    /\ (LayerCloseReturned /\ phase = "closed") =>
          /\ \A i \in 1..Len(hasInit) :
                Count(call.log, "free", i) = (IF i \in AllocatedSlots(call.before) THEN 1 ELSE 0)
          /\ NothingAllocated
    /\ (DestroyReturned /\ phase = "closed" /\ cycles >= 1) =>
          /\ \A i \in 1..Len(hasInit) :
                Count(call.log, "free", i) = 0 /\ Count(call.log, "cleanup", i) = 0
          /\ Count(call.log, "free_ctx", call.t) = 1
          /\ NothingAllocated

\* a destroy after two connect-then-close cycles
C18_Witness ==
    /\ DestroyReturned
    /\ phase = "closed"
    /\ cycles >= 2
    /\ ~ctxAlive
    /\ FreesIn(call.log) = {}

\* C20: closeChain(top) on a chain of n nodes invokes each node's close
\* callback at most once, and exactly once when it returns ESP_OK (the
\* walker alone goes on to the parent).
C20_CloseChainClosesEachOnce ==
    (call.op = "close_chain" /\ call.t # NULL) =>
        \A n \in Range(Chain(call.t)) :
            /\ Count(call.log, "close", n) <= 1
            /\ call.ret = ESP_OK => Count(call.log, "close", n) = 1

GetParentReturned == call.op = "get_parent"

\* what get_parent returned is the node's parent field: empty for the absent
\* node, for a base node and for a bare esp_transport_init node
GetParentResult ==
    GetParentReturned =>
        /\ call.t = NULL => call.node = NULL
        /\ call.t # NULL => call.node = parent[call.t]
        /\ (call.t # NULL /\ ~funcs[call.t]) => call.node = NULL
        /\ call.node # NULL => Chain(call.t) = <<call.t>> \o Chain(call.node)

\* C19: getParent(node) returns the parent the node was constructed with (no
\* call changes a node's parent after construction), and returns empty when
\* the node is absent or was constructed without parent, as a node fresh from
\* esp_transport_init is.
C19_GetParentReturnsConstructed == []GetParentResult /\ [][parent' = parent]_vars

\* get_parent on a layer built over a parent that is itself built over a parent
C19_Witness ==
    /\ GetParentReturned
    /\ call.t # NULL
    /\ call.node # NULL
    /\ call.node = parent[call.t]
    /\ parent[call.node] # NULL


\* the position of the event (e, t) in a log (0: not in it)
PosOf(log, e, t) ==
    IF \E i \in 1..Len(log) : log[i] = Event(e, t)
    THEN MinOf({i \in 1..Len(log) : log[i] = Event(e, t)})
    ELSE 0

\* C21: esp_transport_destroy_chain(top) tears the chain down from top toward
\* the root: for every node, t->parent is read before the node's _destroy
\* runs and before the node is freed, the node's _destroy and free(t) come
\* before anything is done to its parent, and nothing of a node is read or
\* called after free(t).
C21_DestroyChainOrder ==
    DestroyChainReturned =>
        \A i \in 1..Len(CallChain) :
            LET t == CallChain[i]
                got == PosOf(call.log, "get_parent", t)
                destroyed == PosOf(call.log, "destroy", t)
                freed == PosOf(call.log, "free_node", t)
            IN /\ got > 0 /\ freed > 0 /\ got < freed
               /\ funcs[t] => (got < destroyed /\ destroyed < freed)
               /\ \A j \in 1..Len(call.log) :
                     /\ (call.log[j].node = t) => j <= freed
                     /\ (i < Len(CallChain) /\ call.log[j].node = CallChain[i + 1])
                           => freed < j

\* a chain of three or more torn down although the top's _destroy failed
C21_Witness ==
    /\ DestroyChainReturned
    /\ Len(CallChain) >= 3
    /\ 1 \in DestroyFailures
    /\ PosOf(call.log, "free_node", CallChain[1])
         < PosOf(call.log, "destroy", CallChain[2])
    /\ PosOf(call.log, "free_node", CallChain[2])
         < PosOf(call.log, "destroy", CallChain[3])

InitReturned == call.op = "resources_init"
\* the slots whose init function a log invokes
InitCalls(log, i) == Count(log, "init", i)
\* slot i is as it was before the call
SlotUnchanged(i) ==
    /\ initialized[i] = call.before.initialized[i]
    /\ target[i] = call.before.target[i]

\* C22 as stated: of two init calls with no cleanup in between, each slot's
\* init function runs at most once in the two calls together, and the second
\* call changes no slot and allocates nothing.
C22_InitTwiceInvokesOnce ==
    (InitReturned /\ call.again) =>
        /\ \A i \in 1..Len(hasInit) : InitCalls(call.prev, i) + InitCalls(call.log, i) <= 1
        /\ call.log = <<>>
        /\ Table = call.before

\* C22: transport_resources_init never invokes the init function of a slot
\* that is initialized when the call is made, and never touches such a slot
\* or a slot without init function; it invokes each init function at most
\* once per call; and an init called right after an init that succeeded
\* invokes nothing and changes nothing.
C22_InitSkipsInitialized ==
    InitReturned =>
        /\ \A i \in 1..Len(hasInit) :
              /\ InitCalls(call.log, i) <= 1
              /\ (call.before.initialized[i] \/ ~hasInit[i]) =>
                    (InitCalls(call.log, i) = 0 /\ Count(call.log, "cleanup", i) = 0
                     /\ SlotUnchanged(i))
        /\ (call.again /\ call.prevret = ESP_OK) =>
              (call.log = <<>> /\ Table = call.before /\ call.ret = ESP_OK)

\* the second of two init calls in a row, the first of which initialized two
\* slots or more, on a table that also has a slot without init function
C22_Witness ==
    /\ InitReturned
    /\ call.again
    /\ call.prevret = ESP_OK
    /\ Cardinality({i \in 1..Len(hasInit) : InitCalls(call.prev, i) = 1}) >= 2
    /\ \E i \in 1..Len(hasInit) : ~hasInit[i]
    /\ call.log = <<>>

Reverse(q) == [i \in 1..Len(q) |-> q[Len(q) + 1 - i]]
\* the slots whose init function the last call invoked and whose cleanup
\* function it invoked, in the order of the calls
InitOrder == NodesOf(call.log, "init")
CleanupOrder == NodesOf(call.log, "cleanup")

\* C23: the rollback of a failed init invokes cleanup on exactly the slots
\* whose init succeeded during this call, once each, in reverse slot order
\* and after the init that failed; a slot initialized before the call is
\* neither cleaned up nor unmarked, and its target is kept.
C23_RollbackOwnSlotsReversed ==
    InitFailed =>
        /\ InitOrder # <<>>
        /\ InitOrder[Len(InitOrder)] = call.slot
        /\ CleanupOrder = Reverse(Prefix(InitOrder, Len(InitOrder) - 1))
        /\ \A i, j \in 1..Len(CleanupOrder) : i < j => CleanupOrder[i] > CleanupOrder[j]
        /\ Range(CleanupOrder) = InitializedByCall
        /\ \A j \in 1..Len(call.log) :
              call.log[j].ev = "cleanup" => PosOf(call.log, "init", call.slot) < j
        /\ \A i \in InitializedSlots(call.before) :
              /\ i \notin Range(CleanupOrder)
              /\ initialized[i]
              /\ target[i] = call.before.target[i]

\* an init that fails after it initialized two slots, on a table in which a
\* slot below the failing one had been marked by hand
C23_Witness ==
    /\ InitFailed
    /\ Len(CleanupOrder) >= 2
    /\ \E i \in InitializedSlots(call.before) : i < call.slot /\ initialized[i]

\* the connect of a layer built over a parent
LayeredConnectReturned == ConnectReturned /\ parent[call.t] # NULL
\* an init function the connect invoked could not allocate
ConnectInitFailed == \E i \in 1..Len(hasInit) : ~call.initret[i]

\* C24: the connect of a layer built over a parent calls the parent's
\* connect once and before any slot init or allocation of its own; when the
\* parent's connect fails, it returns failure with no slot init invoked and
\* the table untouched; when its own resource init fails after the parent
\* connected, the last thing it does before returning failure is to close
\* the parent.
C24_ConnectParentFirst ==
    LayeredConnectReturned =>
        /\ call.log # <<>>
        /\ call.log[1] = Event("connect", parent[call.t])
        /\ Count(call.log, "connect", parent[call.t]) = 1
        /\ call.pconn < 0 =>
              /\ call.ret < 0
              /\ call.log = <<Event("connect", parent[call.t])>>
              /\ Table = call.before
        /\ (call.pconn >= 0 /\ ConnectInitFailed) =>
              /\ call.ret < 0
              /\ call.log[Len(call.log)] = Event("close", parent[call.t])
              /\ Count(call.log, "close", parent[call.t]) = 1

\* the parent connected, the buffer could not be allocated, the parent was
\* closed and the connect failed
C24_Witness ==
    /\ LayeredConnectReturned
    /\ call.pconn >= 0
    /\ ConnectInitFailed
    /\ PosOf(call.log, "connect", parent[call.t]) < PosOf(call.log, "init", 1)
    /\ PosOf(call.log, "init", 1) < PosOf(call.log, "close", parent[call.t])
    /\ call.ret < 0

\* an add returns ESP_ERR_NO_MEM in this step
AddOutOfMemoryStep == call'.op \in {"list_add", "list_add_ex"} /\ call'.ret = ESP_ERR_NO_MEM

\* C25: an add that fails with ESP_ERR_NO_MEM changes neither the list nor
\* the node: the node is not in the list, and its ownership tag and scheme
\* label are what they were before the call.
C25_FailedAddChangesNothing ==
    [][AddOutOfMemoryStep =>
         /\ list' = list
         /\ call'.t \notin Range(list')
         /\ ownership'[call'.t] = ownership[call'.t]
         /\ scheme'[call'.t] = scheme[call'.t]]_vars

\* what a call did to node n: the events of its log on n, in order
RECURSIVE EventsOn(_, _)
EventsOn(log, n) ==
    IF log = <<>> THEN <<>>
    ELSE (IF Head(log).node = n THEN <<Head(log).ev>> ELSE <<>>) \o EventsOn(Tail(log), n)

\* C30: esp_transport_list_clean does to a SHARED entry exactly what it does
\* to a NONE entry: it frees the scheme label and nothing else (no _destroy,
\* no free of the node record, the node is live with scheme NULL), and the
\* entry is out of the list.
C30_CleanSharedLikeNone ==
    CleanReturned =>
        \A n \in Range(call.entries) :
            ownership[n] \in {ESP_TRANSPORT_OWNERSHIP_SHARED, ESP_TRANSPORT_OWNERSHIP_NONE} =>
                /\ EventsOn(call.log, n) = <<"free_scheme">>
                /\ scheme[n] = NoScheme
                /\ Live(n)
                /\ destroyCount[n] = 0
                /\ n \notin Range(list)

\* a clean of a list holding a SHARED, a NONE and an EXCLUSIVE entry
C30_Witness ==
    /\ CleanReturned
    /\ \E k, m, n \in Range(call.entries) :
         /\ ownership[k] = ESP_TRANSPORT_OWNERSHIP_SHARED
         /\ EventsOn(call.log, k) = <<"free_scheme">> /\ Live(k)
         /\ ownership[m] = ESP_TRANSPORT_OWNERSHIP_NONE
         /\ EventsOn(call.log, m) = <<"free_scheme">> /\ Live(m)
         /\ ownership[n] = ESP_TRANSPORT_OWNERSHIP_EXCLUSIVE /\ ~Live(n)

\* C26: the teardown of the list (esp_transport_list_clean,
\* esp_transport_list_destroy) runs the _destroy of a node and frees a node
\* record at most once, in one call and over all the calls, whatever tags
\* the entries carry; so also when a child and its parent were both added
\* by the legacy esp_transport_list_add.
C26_CleanDestroysAtMostOnce ==
    /\ \A n \in Nodes : destroyCount[n] <= 1 /\ freeCount[n] <= 1
    /\ CleanReturned =>
          \A n \in Nodes :
              /\ Count(call.log, "esp_transport_destroy", n) <= 1
              /\ Count(call.log, "destroy", n) <= 1
              /\ Count(call.log, "free_node", n) <= 1
              /\ Count(call.log, "free_scheme", n) <= 1

\* a teardown of a list to which a child and then its parent and then the
\* parent's parent were added, all EXCLUSIVE: each was destroyed once
C26_Witness ==
    /\ call.op = "list_destroy"
    /\ \E n \in Nodes :
         /\ parent[n] # NULL /\ parent[parent[n]] # NULL
         /\ call.entries = <<n, parent[n], parent[parent[n]]>>
         /\ \A m \in Range(call.entries) :
               /\ ownership[m] = ESP_TRANSPORT_OWNERSHIP_EXCLUSIVE
               /\ Count(call.log, "destroy", m) = 1
               /\ destroyCount[m] = 1 /\ freeCount[m] = 1

\* C27: no entry of the list refers to a node record that was freed, in
\* particular after esp_transport_destroy_chain released the nodes of a
\* chain, so that a later esp_transport_list_clean or
\* esp_transport_list_get_transport never reads a freed node.
C27_NoEntryRefersToFreedNode == Dangling = {}

\* a destroy_chain called right after a clean of the list
DestroyAfterCleanReturned == call.op = "destroy_chain" /\ call.again

\* C29: the scheme label of a node is freed at most once: when
\* esp_transport_list_clean freed the label of a node it skipped (tagged
\* NONE, or SHARED) and esp_transport_destroy_chain then destroys the node,
\* the two calls together free the label once, the destroy_chain not at all.
C29_LabelFreedOnce ==
    DestroyAfterCleanReturned =>
        \A n \in Range(CallChain) :
            /\ Count(call.prev, "free_scheme", n) + Count(call.log, "free_scheme", n) <= 1
            /\ Count(call.prev, "free_scheme", n) = 1 =>
                  (Count(call.log, "free_scheme", n) = 0 /\ Count(call.log, "free_node", n) = 1)

\* a clean freed the labels of two NONE entries of a chain, and the
\* destroy_chain after it destroyed both nodes
C29_Witness ==
    /\ DestroyAfterCleanReturned
    /\ \E m, n \in Range(CallChain) :
         /\ m # n
         /\ \A k \in {m, n} :
               /\ Count(call.prev, "free_scheme", k) = 1
               /\ Count(call.prev, "esp_transport_destroy", k) = 0
               /\ Count(call.log, "free_node", k) = 1
               /\ Count(call.log, "free_scheme", k) = 0

\* C28: in every state a sequence of connects and closes of a layer node
\* reaches (two connects with no close in between and connects ending in a
\* redirect included), every live session allocation of the node is the
\* target of a slot marked initialized: none is lost, and a close leaves
\* none live.
C28_AllocationsHeldBySlots ==
    /\ lost = 0
    /\ AllocatedSlots(Table) \subseteq InitializedSlots(Table)
    /\ LayerCloseReturned => AllocatedSlots(Table) = {}

\* a chain walk that is followed callback by callback, and one that returned
Walking == call.op = "walk" /\ call.pc = "walking"
WalkReturned == call.op = "walk" /\ call.pc = "done"
AggregateWalk == call.fn = "chain_execute" /\ call.agg
\* the nodes on which the walk invoked a callback, in order: the op given to
\* chain_execute (transport_close_wrapper for close_chain), the node's
\* _destroy for destroy_chain
WalkCallbacks ==
    IF call.fn = "destroy_chain" THEN NodesOf(call.log, "destroy") ELSE NodesOf(call.log, "op")
\* the nodes of the chain that have a _destroy callback, in chain order
HasDestroy(n) == funcs[n]
WithDestroy == SelectSeq(CallChain, HasDestroy)
\* what the recursive function returns for the same arguments
WalkRecursion ==
    IF call.fn = "chain_execute"
    THEN esp_transport_chain_execute(call.t, [present |-> TRUE, ret |-> call.cbret], call.agg)
    ELSE IF call.fn = "close_chain" THEN esp_transport_close_chain(call.t, call.closeret)
    ELSE LET r == esp_transport_destroy_chain(Heap, call.t, call.cbret)
         IN [visited |-> NodesOf(r.log, "free_node"), ret |-> r.ret]

\* a started walk returns
WalkTerminates == Walking ~> WalkReturned

\* the walk of a chain of n nodes has invoked at most n callbacks, and
\* exactly n when an aggregate execute or a destroy_chain has returned
WalkWithinNAsStated ==
    call.op = "walk" =>
        /\ Len(WalkCallbacks) <= Len(CallChain)
        /\ (WalkReturned /\ (AggregateWalk \/ call.fn = "destroy_chain")) =>
              Len(WalkCallbacks) = Len(CallChain)

WalkWithinN ==
    call.op = "walk" =>
        /\ Len(call.visited) <= Len(CallChain)
        /\ call.visited = Prefix(CallChain, Len(call.visited))
        /\ Len(WalkCallbacks) <= Len(call.visited)
        /\ Len(NodesOf(call.log, "close")) <= Len(call.visited)
        /\ Walking => call.node = CallChain[Len(call.visited) + 1]
        /\ WalkReturned =>
              /\ AggregateWalk => WalkCallbacks = CallChain
              /\ call.fn = "destroy_chain" =>
                    /\ call.visited = CallChain
                    /\ WalkCallbacks = WithDestroy
                    /\ (\A n \in Range(CallChain) : funcs[n]) =>
                          Len(WalkCallbacks) = Len(CallChain)
              /\ call.visited = WalkRecursion.visited
              /\ call.ret = WalkRecursion.ret

====
